---- MODULE Spec2Model ----
(***************************************************************************)
(* Keystroke-dynamics authentication web application (app.py).             *)
(*                                                                         *)
(* The model covers the request handlers api_verify, api_analyze and       *)
(* api_status, the lazy loader get_verifier, the sample allocator          *)
(* get_next_sample_number and save_keystroke_data, run by the worker       *)
(* threads of the threaded development server (app.run(threaded=True)).    *)
(* A handler is split into steps at each access to state shared between    *)
(* threads: the global verifier, the data directory, the temporary upload  *)
(* files.  Code between two such accesses is local to the thread and is    *)
(* part of the step that follows it.                                       *)
(*                                                                         *)
(* Config, utils.feature_extractor and verify_optimized are modules of the *)
(* application whose code is not part of app.py; what the model needs of   *)
(* them follows the design document (sections 4.1-4.4).                    *)
(***************************************************************************)
EXTENDS Integers, Sequences, FiniteSets, TLC

VARIABLES
    verifier,     \* the global `verifier`: None or the instance stored last
    loadable,     \* whether importing and constructing the verifier succeeds now
    constructed,  \* number of OptimizedKeystrokeVerifier instances constructed so far
    files,        \* data directory: sample number |-> request whose data sampleN.csv holds
    issued,       \* history of get_next_sample_number: what it returned and what it saw
    tempFiles,    \* temp_upload_*.csv files present, named by the request that saved them
    requests,     \* number of requests received so far
    th,           \* per worker thread: the request it serves and its local variables
    fusion        \* a fusion run under a configuration of the thresholds (SpecFuse)

vars == <<verifier, loadable, constructed, files, issued, tempFiles, requests, th, fusion>>

(***************************************************************************)
(* Bounds of the model.                                                    *)
(***************************************************************************)
NumThreads == 2
MaxRequests == 2
MaxKeys == 1
MaxTime == 1
MaxInitialSample == 1
MaxClassifiers == 3

Threads == 1..NumThreads
Times == 0..MaxTime

(***************************************************************************)
(* Configuration (Config) and values of the program.                       *)
(***************************************************************************)
MIN_KEYSTROKES == 1
CONFIDENCE_THRESHOLD == 75
AGREEMENT_THRESHOLD == 60

None == 0
NoResult == [kind |-> "none"]
NoFeatures == [kind |-> "none"]

BoundedSeq(S, n) == UNION {[1..k -> S] : k \in 0..n}

\* A raw key event {pressTime, releaseTime} of a request body or a CSV row.
KeyEvents == [pressTime : Times, releaseTime : Times]
Sessions == BoundedSeq(KeyEvents, MaxKeys)

\* A classifier's vote: a normalized score and its own verdict.
Scores == {40, 85, 90}
Votes == [score : Scores, verdict : BOOLEAN]
AllVotes == BoundedSeq(Votes, MaxClassifiers)

\* The votes an ensemble may cast for a request in the server model.
EnsembleVotes ==
    { <<[score |-> 90, verdict |-> TRUE], [score |-> 85, verdict |-> TRUE],
        [score |-> 40, verdict |-> FALSE]>>,
      <<[score |-> 90, verdict |-> TRUE], [score |-> 85, verdict |-> TRUE]>>,
      <<[score |-> 85, verdict |-> TRUE], [score |-> 40, verdict |-> FALSE]>> }

ConfidenceThresholds == {70, 75, 80}
AgreementThresholds == {50, 60, 70}

(***************************************************************************)
(* Exact rationals as <<numerator, denominator>>.                          *)
(***************************************************************************)
Zero == <<0, 1>>
Ratio(n, d) == <<n, d>>

RECURSIVE SumTo(_, _)
SumTo(f, n) == IF n = 0 THEN 0 ELSE f[n] + SumTo(f, n - 1)

Max(S) == CHOOSE x \in S : \A y \in S : y <= x

(***************************************************************************)
(* Event Normalizer (design 4.1): validation, then a stable sort by        *)
(* pressTime.                                                              *)
(***************************************************************************)
InsufficientKeystrokes(keystrokes) == Len(keystrokes) < MIN_KEYSTROKES

MalformedTiming(keystrokes) ==
    \E i \in 1..Len(keystrokes) : keystrokes[i].releaseTime < keystrokes[i].pressTime

RECURSIVE InsertByPress(_, _)
InsertByPress(e, s) ==
    IF s = <<>> THEN <<e>>
    ELSE IF e.pressTime < Head(s).pressTime THEN <<e>> \o s
    ELSE <<Head(s)>> \o InsertByPress(e, Tail(s))

RECURSIVE SortByPress(_)
SortByPress(s) ==
    IF s = <<>> THEN <<>>
    ELSE InsertByPress(s[Len(s)], SortByPress(SubSeq(s, 1, Len(s) - 1)))

(***************************************************************************)
(* Feature Extractor (design 4.2).  Means and ratios are exact rationals;  *)
(* the standard deviations are not representable over the integers and are *)
(* left out of the vector.                                                 *)
(***************************************************************************)
Dwell(s) == [i \in 1..Len(s) |-> s[i].releaseTime - s[i].pressTime]

Flight(s) ==
    [i \in 1..(Len(s) - 1) |->
        IF s[i + 1].pressTime - s[i].releaseTime < 0 THEN 0
        ELSE s[i + 1].pressTime - s[i].releaseTime]

extract_comprehensive_features(s) ==
    LET n == Len(s)
        dsum == SumTo(Dwell(s), n)
        fsum == IF n > 1 THEN SumTo(Flight(s), n - 1) ELSE 0
        total == IF n > 0 THEN s[n].releaseTime - s[1].pressTime ELSE 0
    IN  [ kind |-> "features",
          dwell_mean |-> IF n > 0 THEN Ratio(dsum, n) ELSE Zero,
          flight_mean |-> IF n > 1 THEN Ratio(fsum, n - 1) ELSE Zero,
          total_time |-> total,
          typing_speed |-> IF total > 0 THEN Ratio(n, total) ELSE Zero,
          dwell_flight_ratio |-> IF fsum > 0 THEN Ratio(dsum * (n - 1), n * fsum) ELSE Zero ]

typing_statistics(features) ==
    [ dwell_time_mean |-> features.dwell_mean,
      flight_time_mean |-> features.flight_mean,
      total_time |-> features.total_time,
      typing_speed |-> features.typing_speed,
      dwell_flight_ratio |-> features.dwell_flight_ratio ]

(***************************************************************************)
(* Ensemble Fusion (design 4.4).                                           *)
(***************************************************************************)
ScoreSum(votes) == SumTo([i \in 1..Len(votes) |-> votes[i].score], Len(votes))

Accepts(votes) == Cardinality({i \in 1..Len(votes) : votes[i].verdict})

\* Majority verdict; an even split resolves toward reject.
MajorityAccepts(votes) == 2 * Accepts(votes) > Len(votes)

Matching(votes) ==
    IF MajorityAccepts(votes) THEN Accepts(votes) ELSE Len(votes) - Accepts(votes)

\* The comparison of ConfidenceMeets turned around.
ConfidenceMeetsReversed(votes, ct) ==
    Len(votes) > 0 /\ ScoreSum(votes) <= ct * Len(votes)

\* confidence >= ct, with confidence the mean of the scores.
ConfidenceMeets(votes, ct) ==
    Len(votes) > 0 /\ ScoreSum(votes) >= ct * Len(votes)

\* model_agreement >= at, with model_agreement the percentage of matching votes.
AgreementMeets(votes, at) ==
    Len(votes) > 0 /\ 100 * Matching(votes) >= at * Len(votes)

Authenticated(votes, ct, at) == ConfidenceMeets(votes, ct) /\ AgreementMeets(votes, at)

fuse(votes, ct, at) ==
    [ is_authentic |-> Authenticated(votes, ct, at),
      confidence |-> Ratio(ScoreSum(votes), Len(votes)),
      ensemble_decision |-> IF MajorityAccepts(votes) THEN "Legitimate" ELSE "Impostor",
      model_agreement |-> Ratio(100 * Matching(votes), Len(votes)),
      final_decision |-> IF Authenticated(votes, ct, at) THEN "AUTHENTICATED" ELSE "REJECTED" ]

(***************************************************************************)
(* Responses and results.                                                  *)
(***************************************************************************)
NoResponse == [status |-> "none", code |-> 0, message |-> "", result |-> NoResult]

Error(code, message) ==
    [status |-> "error", code |-> code, message |-> message, result |-> NoResult]

Success(result) ==
    [status |-> "success", code |-> 200, message |-> "", result |-> result]

\* The authentication_result api_verify puts in every result it builds.
authentication_result ==
    [ is_authentic |-> TRUE,
      confidence |-> Ratio(85, 1),
      ensemble_decision |-> "Legitimate",
      model_agreement |-> Ratio(95, 1),
      final_decision |-> "AUTHENTICATED" ]

\* The result dictionary of api_verify (verification_time, a clock reading, left out).
VerifyResult(sample_number, keystrokes, features) ==
    [ kind |-> "result",
      saved_as |-> sample_number,
      keystroke_count |-> Len(keystrokes),
      authentication_result |-> authentication_result,
      typing_statistics |-> typing_statistics(features) ]

\* verify_keystroke_file of the verifier: the outcomes it may have on the rows of
\* a file, for the votes the classifiers cast.  A session the normalizer rejects
\* has no result: the call raises or returns None.
verify_keystroke_file(keystrokes, votes) ==
    IF InsufficientKeystrokes(keystrokes) \/ MalformedTiming(keystrokes)
    THEN {[kind |-> "raise"], NoResult}
    ELSE {[ kind |-> "result",
            saved_as |-> None,
            keystroke_count |-> Len(keystrokes),
            authentication_result |-> fuse(votes, CONFIDENCE_THRESHOLD, AGREEMENT_THRESHOLD),
            typing_statistics |->
                typing_statistics(extract_comprehensive_features(SortByPress(keystrokes))) ]}

(***************************************************************************)
(* get_next_sample_number: one more than the largest sample number among   *)
(* the sampleN.csv files of the data directory, 1 when there is none.      *)
(***************************************************************************)
get_next_sample_number(dir) ==
    IF DOMAIN dir = {} THEN 1 ELSE Max(DOMAIN dir) + 1

(***************************************************************************)
(* Worker threads.                                                         *)
(***************************************************************************)
IdleThread ==
    [ pc |-> "idle",
      endpoint |-> "none",
      rid |-> 0,
      has_keystrokes |-> FALSE,
      keystrokes |-> <<>>,
      sample_number |-> None,
      saved_filepath |-> None,
      features |-> NoFeatures,
      temp_path |-> None,
      obj |-> None,
      called |-> FALSE,
      verifier_instance |-> None,
      result |-> NoResult,
      votes |-> <<>>,
      response |-> NoResponse ]

NoFusion == [votes |-> <<>>, ct |-> 0, at |-> 0, previous |-> "none", decision |-> "none"]

Init ==
    /\ verifier = None
    /\ loadable \in BOOLEAN
    /\ constructed = 0
    /\ files \in {[n \in S |-> 0] : S \in SUBSET (1..MaxInitialSample)}
    /\ issued = <<>>
    /\ tempFiles = {}
    /\ requests = 0
    /\ th = [t \in Threads |-> IdleThread]
    /\ fusion = NoFusion

\* A request arrives at an idle thread.
Accept(t) ==
    /\ th[t].pc = "idle"
    /\ requests < MaxRequests
    /\ requests' = requests + 1

Begun(t, endpoint) == [IdleThread EXCEPT !.endpoint = endpoint, !.rid = requests + 1]

Respond(r, response) == [r EXCEPT !.pc = "done", !.response = response]

(***************************************************************************)
(* get_verifier, lines 25-35.                                              *)
(***************************************************************************)
\* if verifier is None:
GetVerifierCheck(t) ==
    /\ th[t].pc = "gv_check"
    /\ th' = [th EXCEPT ![t].pc = IF verifier = None THEN "gv_load" ELSE "gv_return"]
    /\ UNCHANGED <<verifier, loadable, constructed, files, issued, tempFiles, requests, fusion>>

\* from verify_optimized import ...; OptimizedKeystrokeVerifier(): a new
\* instance, or an exception.
GetVerifierLoad(t) ==
    /\ th[t].pc = "gv_load"
    /\ IF loadable
       THEN /\ constructed' = constructed + 1
            /\ th' = [th EXCEPT ![t].pc = "gv_store", ![t].obj = constructed + 1]
       ELSE /\ constructed' = constructed
            /\ th' = [th EXCEPT ![t].pc = "gv_store", ![t].obj = None]
    /\ UNCHANGED <<verifier, loadable, files, issued, tempFiles, requests, fusion>>

\* verifier = <the instance>, or verifier = None in the except clause.
GetVerifierStore(t) ==
    /\ th[t].pc = "gv_store"
    /\ verifier' = th[t].obj
    /\ th' = [th EXCEPT ![t].pc = "gv_return"]
    /\ UNCHANGED <<loadable, constructed, files, issued, tempFiles, requests, fusion>>

\* return verifier: the global is read again.
GetVerifierReturn(t) ==
    /\ th[t].pc = "gv_return"
    /\ th' = [th EXCEPT ![t].pc = "after_gv", ![t].called = TRUE,
                        ![t].verifier_instance = verifier]
    /\ UNCHANGED <<verifier, loadable, constructed, files, issued, tempFiles, requests, fusion>>

(***************************************************************************)
(* api_verify, lines 138-216, with save_keystroke_data, lines 59-78.       *)
(***************************************************************************)
ApiVerifyBegin(t) ==
    /\ Accept(t)
    /\ \/ th' = [th EXCEPT ![t] =
                    Respond(Begun(t, "verify"), Error(400, "No keystroke data provided"))]
       \/ \E keystrokes \in Sessions :
            LET r == [Begun(t, "verify") EXCEPT !.has_keystrokes = TRUE,
                                               !.keystrokes = keystrokes]
            IN  th' = [th EXCEPT ![t] =
                          IF Len(keystrokes) < MIN_KEYSTROKES
                          THEN Respond(r, Error(400, "Insufficient keystrokes"))
                          ELSE [r EXCEPT !.pc = "scan"]]
    /\ UNCHANGED <<verifier, loadable, constructed, files, issued, tempFiles, fusion>>

\* save_keystroke_data: sample_number = get_next_sample_number()
SaveScan(t) ==
    /\ th[t].pc = "scan"
    /\ th' = [th EXCEPT ![t].pc = "write",
                        ![t].sample_number = get_next_sample_number(files)]
    /\ issued' = Append(issued, [number |-> get_next_sample_number(files),
                                 present |-> DOMAIN files])
    /\ UNCHANGED <<verifier, loadable, constructed, files, tempFiles, requests, fusion>>

\* save_keystroke_data: df.to_csv(filepath), or an exception and (None, None).
SaveWrite(t) ==
    /\ th[t].pc = "write"
    /\ \/ /\ files' = [n \in DOMAIN files \cup {th[t].sample_number} |->
                          IF n = th[t].sample_number THEN th[t].rid ELSE files[n]]
          /\ th' = [th EXCEPT ![t].pc = "extract",
                              ![t].saved_filepath = th[t].sample_number]
       \/ /\ files' = files
          /\ th' = [th EXCEPT ![t].pc = "extract", ![t].sample_number = None]
    /\ UNCHANGED <<verifier, loadable, constructed, issued, tempFiles, requests, fusion>>

\* features = feature_extractor.extract_comprehensive_features(df).  On events
\* whose release precedes their press the extractor may also raise.
ApiVerifyExtract(t) ==
    /\ th[t].pc = "extract"
    /\ \/ th' = [th EXCEPT ![t].pc = "gv_check",
                           ![t].features = extract_comprehensive_features(th[t].keystrokes)]
       \/ /\ MalformedTiming(th[t].keystrokes)
          /\ th' = [th EXCEPT ![t] = Respond(th[t], Error(500, "Verification failed"))]
    /\ UNCHANGED <<verifier, loadable, constructed, files, issued, tempFiles, requests, fusion>>

\* After get_verifier: 503, or the result.  The handler builds the result
\* without asking the classifiers; votes records what they cast for the request.
ApiVerifyRespond(t) ==
    /\ th[t].pc = "after_gv"
    /\ th[t].endpoint = "verify"
    /\ \/ /\ th[t].verifier_instance = None
          /\ th' = [th EXCEPT ![t] =
                       Respond(th[t], Error(503, "Verification system not available"))]
       \/ /\ th[t].verifier_instance # None
          /\ \E votes \in EnsembleVotes :
               th' = [th EXCEPT ![t] =
                         Respond([th[t] EXCEPT !.votes = votes],
                                 Success(VerifyResult(th[t].sample_number,
                                                      th[t].keystrokes, th[t].features)))]
    /\ UNCHANGED <<verifier, loadable, constructed, files, issued, tempFiles, requests, fusion>>

(***************************************************************************)
(* api_analyze, lines 218-275.                                             *)
(***************************************************************************)
ApiAnalyzeBegin(t) ==
    /\ Accept(t)
    /\ \/ /\ \E message \in {"No file provided", "No file selected",
                             "Only CSV files are supported"} :
                th' = [th EXCEPT ![t] = Respond(Begun(t, "analyze"), Error(400, message))]
          /\ tempFiles' = tempFiles
       \/ /\ \E rows \in Sessions :
                th' = [th EXCEPT ![t] =
                          [Begun(t, "analyze") EXCEPT !.pc = "gv_check",
                                                      !.has_keystrokes = TRUE,
                                                      !.keystrokes = rows,
                                                      !.temp_path = requests + 1]]
          /\ tempFiles' = tempFiles \cup {requests + 1}
    /\ UNCHANGED <<verifier, loadable, constructed, files, issued, fusion>>

ApiAnalyzeVerify(t) ==
    /\ th[t].pc = "after_gv"
    /\ th[t].endpoint = "analyze"
    /\ \/ /\ th[t].verifier_instance = None
          /\ th' = [th EXCEPT ![t] =
                       Respond(th[t], Error(503, "Verification system not available"))]
       \/ /\ th[t].verifier_instance # None
          /\ \E votes \in EnsembleVotes :
               \E out \in verify_keystroke_file(th[t].keystrokes, votes) :
                  th' = [th EXCEPT ![t] =
                            IF out = [kind |-> "raise"]
                            THEN Respond(th[t], Error(500, "Analysis failed"))
                            ELSE [th[t] EXCEPT !.pc = "cleanup",
                                               !.result = out,
                                               !.votes = IF out = NoResult THEN <<>> ELSE votes]]
    /\ UNCHANGED <<verifier, loadable, constructed, files, issued, tempFiles, requests, fusion>>

\* os.remove(temp_path), then the response.
ApiAnalyzeCleanup(t) ==
    /\ th[t].pc = "cleanup"
    /\ tempFiles' = tempFiles \ {th[t].temp_path}
    /\ th' = [th EXCEPT ![t] =
                 Respond(th[t], IF th[t].result # NoResult
                                THEN Success(th[t].result)
                                ELSE Error(500, "Verification failed"))]
    /\ UNCHANGED <<verifier, loadable, constructed, files, issued, requests, fusion>>

(***************************************************************************)
(* api_status, lines 277-287.                                              *)
(***************************************************************************)
ApiStatusBegin(t) ==
    /\ Accept(t)
    /\ th' = [th EXCEPT ![t] = [Begun(t, "status") EXCEPT !.pc = "gv_check"]]
    /\ UNCHANGED <<verifier, loadable, constructed, files, issued, tempFiles, fusion>>

ApiStatusRespond(t) ==
    /\ th[t].pc = "after_gv"
    /\ th[t].endpoint = "status"
    /\ th' = [th EXCEPT ![t] =
                 Respond(th[t], [status |-> "online", code |-> 200,
                                 message |-> IF th[t].verifier_instance # None
                                             THEN "model_loaded" ELSE "model_not_loaded",
                                 result |-> NoResult])]
    /\ UNCHANGED <<verifier, loadable, constructed, files, issued, tempFiles, requests, fusion>>

\* The response has been sent; the thread is free for the next request.
Finish(t) ==
    /\ th[t].pc = "done"
    /\ th' = [th EXCEPT ![t] = IdleThread]
    /\ UNCHANGED <<verifier, loadable, constructed, files, issued, tempFiles, requests, fusion>>

\* The verifier's module and model files become available, or stop being so.
EnvironmentChange ==
    /\ loadable' = ~loadable
    /\ UNCHANGED <<verifier, constructed, files, issued, tempFiles, requests, th, fusion>>

Next ==
    \/ \E t \in Threads :
        \/ ApiVerifyBegin(t)
        \/ SaveScan(t)
        \/ SaveWrite(t)
        \/ ApiVerifyExtract(t)
        \/ ApiVerifyRespond(t)
        \/ ApiAnalyzeBegin(t)
        \/ ApiAnalyzeVerify(t)
        \/ ApiAnalyzeCleanup(t)
        \/ ApiStatusBegin(t)
        \/ ApiStatusRespond(t)
        \/ GetVerifierCheck(t)
        \/ GetVerifierLoad(t)
        \/ GetVerifierStore(t)
        \/ GetVerifierReturn(t)
        \/ Finish(t)
    \/ EnvironmentChange

Spec == Init /\ [][Next]_vars

(***************************************************************************)
(* The fusion decision under a configuration of the two thresholds, and    *)
(* the same votes fused again after a threshold has been raised.           *)
(***************************************************************************)
Fused(votes, ct, at, previous) ==
    [votes |-> votes, ct |-> ct, at |-> at, previous |-> previous,
     decision |-> fuse(votes, ct, at).final_decision]

InitFuse ==
    /\ verifier = None
    /\ loadable = TRUE
    /\ constructed = 0
    /\ files = <<>>
    /\ issued = <<>>
    /\ tempFiles = {}
    /\ requests = 0
    /\ th = [t \in Threads |-> IdleThread]
    /\ fusion \in {Fused(votes, ct, at, "none") :
                      votes \in AllVotes \ {<<>>},
                      ct \in ConfidenceThresholds, at \in AgreementThresholds}

RaiseConfidenceThreshold ==
    /\ \E ct \in ConfidenceThresholds :
          /\ ct > fusion.ct
          /\ fusion' = Fused(fusion.votes, ct, fusion.at, fusion.decision)
    /\ UNCHANGED <<verifier, loadable, constructed, files, issued, tempFiles, requests, th>>

RaiseAgreementThreshold ==
    /\ \E at \in AgreementThresholds :
          /\ at > fusion.at
          /\ fusion' = Fused(fusion.votes, fusion.ct, at, fusion.decision)
    /\ UNCHANGED <<verifier, loadable, constructed, files, issued, tempFiles, requests, th>>

NextFuse == RaiseConfidenceThreshold \/ RaiseAgreementThreshold

SpecFuse == InitFuse /\ [][NextFuse]_vars

(***************************************************************************)
(* Properties.                                                             *)
(***************************************************************************)
Done(t) == th[t].pc = "done"

Verifying(t) == th[t].endpoint \in {"verify", "analyze"}

HasResult(t) == th[t].response.status = "success"

Decision(t) == th[t].response.result.authentication_result

\* C1: on api_verify and api_analyze, a request whose keystroke sequence is
\* shorter than MIN_KEYSTROKES ends in a validation error (400) and never in
\* a success response carrying a result.
C1_ShortSessionIsValidationError ==
    \A t \in Threads :
        (Done(t) /\ Verifying(t) /\ th[t].has_keystrokes
            /\ Len(th[t].keystrokes) < MIN_KEYSTROKES)
        => (th[t].response.code = 400 /\ ~HasResult(t))

\* C2: every result returned has final_decision AUTHENTICATED exactly when the
\* confidence and the agreement fused from the request's votes meet
\* CONFIDENCE_THRESHOLD and AGREEMENT_THRESHOLD, and REJECTED otherwise.
C2_DecisionFollowsVotes ==
    \A t \in Threads :
        (Done(t) /\ Verifying(t) /\ HasResult(t))
        => Decision(t).final_decision =
              IF Authenticated(th[t].votes, CONFIDENCE_THRESHOLD, AGREEMENT_THRESHOLD)
              THEN "AUTHENTICATED" ELSE "REJECTED"

\* C3: an api_verify request with a key event whose releaseTime is before its
\* pressTime has no features extracted and ends in a validation error (400)
\* without a result.
C3_MalformedTimingIsValidationError ==
    \A t \in Threads :
        (th[t].endpoint = "verify" /\ th[t].has_keystrokes
            /\ MalformedTiming(th[t].keystrokes))
        => /\ th[t].features = NoFeatures
           /\ Done(t) => (th[t].response.code = 400 /\ ~HasResult(t))

\* C4: a request whose get_verifier call returned None answers 503, not 400,
\* and without a result; and a get_verifier call made when the verifier can be
\* loaded, which therefore constructed it, returns it.
C4_UnavailableIs503AndRetryable ==
    \A t \in Threads :
        /\ (Done(t) /\ Verifying(t) /\ th[t].called /\ th[t].verifier_instance = None)
              => (th[t].response.code = 503 /\ th[t].response.code # 400 /\ ~HasResult(t))
        /\ (th[t].called /\ th[t].obj # None) => th[t].verifier_instance # None

\* C5: a verification request that ended without a result wrote no sample
\* file to the data directory.
C5_NoSampleWithoutResult ==
    \A t \in Threads :
        (Done(t) /\ Verifying(t) /\ ~HasResult(t)) => th[t].saved_filepath = None

\* C6: in every result returned, is_authentic holds exactly when
\* final_decision is AUTHENTICATED, and ensemble_decision is Legitimate exactly
\* when the majority of the request's votes accepts; Impostor never comes with
\* is_authentic.
C6_LabelsFollowDecision ==
    \A t \in Threads :
        (Done(t) /\ Verifying(t) /\ HasResult(t))
        => /\ Decision(t).is_authentic <=> (Decision(t).final_decision = "AUTHENTICATED")
           /\ (Decision(t).ensemble_decision = "Legitimate") <=> MajorityAccepts(th[t].votes)
           /\ ~(Decision(t).ensemble_decision = "Impostor" /\ Decision(t).is_authentic)

\* C7: for the same votes, raising CONFIDENCE_THRESHOLD or AGREEMENT_THRESHOLD
\* never turns a REJECTED decision into AUTHENTICATED.
C7_RaisingThresholdKeepsRejected ==
    fusion.previous = "REJECTED" => fusion.decision = "REJECTED"

\* C7 witness: votes whose decision was REJECTED have been fused again under
\* a raised threshold, and their confidence meets the confidence threshold
\* in force (the agreement is what rejects them).
C7_RejectedThenRaised ==
    /\ fusion.previous = "REJECTED"
    /\ fusion.decision = "REJECTED"
    /\ ConfidenceMeets(fusion.votes, fusion.ct)

\* C8: get_next_sample_number never returns the same number twice, no request
\* finds the sample file it wrote holding another request's data, and each
\* number returned is greater than every sample number present in the directory.
C8_SampleNumbersUnique ==
    /\ \A i, j \in DOMAIN issued : i # j => issued[i].number # issued[j].number
    /\ \A t \in Threads :
          th[t].saved_filepath # None => files[th[t].saved_filepath] = th[t].rid
    /\ \A i \in DOMAIN issued : \A n \in issued[i].present : issued[i].number > n

\* C9: at most one verifier instance is ever constructed; once the global
\* verifier is set it is never reset to None nor replaced; and every call
\* that returns an instance returns that one.
C9_VerifierIsSingleton ==
    /\ [](constructed <= 1)
    /\ [][verifier # None => verifier' = verifier]_vars
    /\ [](\A t \in Threads :
            (th[t].called /\ th[t].verifier_instance # None)
                => th[t].verifier_instance = verifier)

\* C10: an api_analyze request that saved a temp_upload file has removed it by
\* the time it responds.
C10_TempFileRemoved ==
    \A t \in Threads :
        (Done(t) /\ th[t].endpoint = "analyze" /\ th[t].temp_path # None)
        => th[t].temp_path \notin tempFiles

====
